---- MODULE Spec2Model ----
(***************************************************************************)
(* Model of scripts/configure_ns.py: the Tailscale NS device auto-          *)
(* configuration script (identity matcher, config patcher, main()).         *)
(*                                                                          *)
(* Strings.  A Python string is represented by the list of its '.'-free    *)
(* pieces, i.e. by the value of s.split('.'): "build-host.example.com" is   *)
(* <<"build-host", "example", "com">>, the empty string '' is <<"">>.       *)
(* Every string has exactly one such list and the list is never empty, so   *)
(* the empty list <<>> is free to stand for Python's None.                  *)
(*                                                                          *)
(* Config text.  The content of configs/config.yaml is a sequence of        *)
(* lexemes <<literal, value>>: the literal text of the lexeme and, for the  *)
(* quoted lexemes, the string between the quotes.                           *)
(***************************************************************************)
EXTENDS Integers, Sequences, FiniteSets, TLC

VARIABLES
    pc,             \* position of the run: the step main() executes next
    trace,          \* the steps main() has executed so far, in order
    exists,         \* whether configs/config.yaml exists
    file,           \* content of configs/config.yaml on disk
    file0,          \* content of configs/config.yaml at process start
    before,         \* content read by the last update_config_with_device
    api_key,        \* main(): api_key
    tailnet,        \* main(): tailnet
    tailscale_ip,   \* main(): tailscale_ip
    hostname,       \* main(): hostname
    response,       \* what the registry answered to the one request
    devices_data,   \* main(): devices_data
    device_name,    \* main(): device_name
    updated,        \* return value of the last update_config_with_device
    errors,         \* number of log_error lines printed
    fetches,        \* number of requests sent to the registry
    writes,         \* number of times the config file was opened for writing
    exit_code       \* process exit code, -1 while the process runs

vars == <<pc, trace, exists, file, file0, before, api_key, tailnet,
          tailscale_ip, hostname, response, devices_data, device_name,
          updated, errors, fetches, writes, exit_code>>

----------------------------------------------------------------------------
(* Bounds of the model *)

\* devices per registry when the matcher is checked on its own
MaxDevices == 2
\* devices per registry in the runs of main()
MaxRunDevices == 1
\* lexemes per config text when the patcher is checked on its own
MaxLen == 5

----------------------------------------------------------------------------
(* Python values *)

None == <<>>

\* Python truthiness of an optional string: None and '' are falsy.
Truthy(s) == s # None /\ s # <<"">>

\* s.split('.')[0]
SplitDot0(s) == s[1]

Running == -1

----------------------------------------------------------------------------
(* The registry: JSON as returned by the devices endpoint *)

IP1 == <<"100", "64", "1", "5">>
IP2 == <<"100", "64", "1", "6">>
IPs == {IP1, IP2}

DeviceNames == {<<"ci-1">>, <<"build-host">>}
\* <<"">> is the value device.get('hostname', '') yields for a missing key
DeviceHostnames == {<<"build-host">>, <<"build-host", "example", "com">>, <<"">>}
LocalHostnames == {None, <<"">>, <<"build-host">>, <<"build-host", "example", "com">>}

\* A record without an 'addresses' key is a record with no addresses.
DeviceRecords ==
    [name : DeviceNames, hostname : DeviceHostnames, addresses : SUBSET IPs]

SeqsUpTo(S, n) == UNION {[1..k -> S] : k \in 0..n}

\* kinds of a decoded body: "none" null, "empty" {}, "nodevices" an object
\* without the key 'devices', "ok" an object with a 'devices' array
Json(kind, devices) == [kind |-> kind, devices |-> devices]
NoData == Json("none", <<>>)
Registries(n) == {Json("ok", ds) : ds \in SeqsUpTo(DeviceRecords, n)}
Bodies(n) == Registries(n) \cup {Json("empty", <<>>), Json("nodevices", <<>>), NoData}

\* Python truthiness of devices_data: None and the empty object are falsy.
DataTruthy(d) == d.kind \in {"nodevices", "ok"}

----------------------------------------------------------------------------
(* detect_current_device *)

\* for device in devices: if 'addresses' in device and tailscale_ip in device['addresses']
RECURSIVE ScanByIP(_, _, _)
ScanByIP(devices, i, ip) ==
    IF i > Len(devices) THEN 0
    ELSE IF ip \in devices[i].addresses THEN i
    ELSE ScanByIP(devices, i + 1, ip)

HostnameTest_exact_only(device, h) ==
    \/ device.hostname = h
    \/ device.name = h

HostnameTest(device, h) ==
    \/ device.hostname = h
    \/ <<SplitDot0(device.hostname)>> = h
    \/ device.name = h

\* for device in devices: if (device_hostname == hostname or ...)
RECURSIVE ScanByHostname(_, _, _)
ScanByHostname(devices, i, h) ==
    IF i > Len(devices) THEN 0
    ELSE IF HostnameTest(devices[i], h) THEN i
    ELSE ScanByHostname(devices, i + 1, h)

detect_current_device_hostname_first(data, ip, h) ==
    IF ~DataTruthy(data) \/ data.kind # "ok" THEN None
    ELSE LET devices == data.devices
             byIP == IF Truthy(ip) THEN ScanByIP(devices, 1, ip) ELSE 0
             byHost == IF Truthy(h) THEN ScanByHostname(devices, 1, h) ELSE 0
         IN  IF byHost # 0 THEN devices[byHost].name
             ELSE IF byIP # 0 THEN devices[byIP].name
             ELSE None

detect_current_device_is_not_none(data, ip, h) ==
    IF ~DataTruthy(data) \/ data.kind # "ok" THEN None
    ELSE LET devices == data.devices
             byIP == IF ip # None THEN ScanByIP(devices, 1, ip) ELSE 0
             byHost == IF h # None THEN ScanByHostname(devices, 1, h) ELSE 0
         IN  IF byIP # 0 THEN devices[byIP].name
             ELSE IF byHost # 0 THEN devices[byHost].name
             ELSE None

detect_current_device(data, ip, h) ==
    IF ~DataTruthy(data) \/ data.kind # "ok" THEN None
    ELSE LET devices == data.devices
             byIP == IF Truthy(ip) THEN ScanByIP(devices, 1, ip) ELSE 0
             byHost == IF Truthy(h) THEN ScanByHostname(devices, 1, h) ELSE 0
         IN  IF byIP # 0 THEN devices[byIP].name
             ELSE IF byHost # 0 THEN devices[byHost].name
             ELSE None

----------------------------------------------------------------------------
(* The config text *)

Lexeme(literal, value) == <<literal, value>>
Hash == Lexeme("# ", None)
NL == Lexeme("\n", None)
\* device_name: "<d>"
Assign(d) == Lexeme("device_name: ", d)
\* api_key: "<v>" and tailnet: "<v>"
ApiKey(v) == Lexeme("api_key: ", v)
Tailnet(v) == Lexeme("tailnet: ", v)

YourDeviceName == <<"your-device-name">>

\* '# device_name: "your-device-name"'
Placeholder == <<Hash, Assign(YourDeviceName)>>
\* f'device_name: "{device_name}"'
Replacement(d) == <<Assign(d)>>

StartsWith(s, old) == Len(s) >= Len(old) /\ SubSeq(s, 1, Len(old)) = old
Drop(s, n) == SubSeq(s, n + 1, Len(s))

\* str.replace(old, new) for a non-empty old: the occurrences of old, found
\* from left to right without overlap, are each replaced by new.
RECURSIVE StrReplaceFirstOnly(_, _, _)
StrReplaceFirstOnly(s, old, new) ==
    IF Len(s) < Len(old) THEN s
    ELSE IF StartsWith(s, old) THEN new \o Drop(s, Len(old))
    ELSE <<Head(s)>> \o StrReplaceFirstOnly(Tail(s), old, new)

RECURSIVE StrReplace(_, _, _)
StrReplace(s, old, new) ==
    IF Len(s) < Len(old) THEN s
    ELSE IF StartsWith(s, old) THEN new \o StrReplace(Drop(s, Len(old)), old, new)
    ELSE <<Head(s)>> \o StrReplace(Tail(s), old, new)

Prefixes(s) == {SubSeq(s, 1, n) : n \in 0..Len(s)}

\* The outcomes of one call: ret the value returned, content the file
\* afterwards, opened whether the file was opened for writing, errs the
\* log_error lines printed.  The read or the open for writing may raise
\* (file untouched); the write may raise after the open truncated the file.
update_config_with_device_append_if_missing(content, d) ==
    LET replaced == StrReplace(content, Placeholder, Replacement(d))
        updated_content ==
            IF replaced = content THEN content \o Replacement(d) ELSE replaced
    IN  {[ret |-> TRUE, content |-> updated_content, opened |-> TRUE, errs |-> 0],
         [ret |-> FALSE, content |-> content, opened |-> FALSE, errs |-> 1]}
        \cup {[ret |-> FALSE, content |-> p, opened |-> TRUE, errs |-> 1] :
                 p \in Prefixes(updated_content) \ {updated_content}}

update_config_with_device_swapped(content, d) ==
    LET updated_content == StrReplace(content, Replacement(d), Placeholder)
    IN  {[ret |-> TRUE, content |-> updated_content, opened |-> TRUE, errs |-> 0],
         [ret |-> FALSE, content |-> content, opened |-> FALSE, errs |-> 1]}
        \cup {[ret |-> FALSE, content |-> p, opened |-> TRUE, errs |-> 1] :
                 p \in Prefixes(updated_content) \ {updated_content}}

update_config_with_device(content, d) ==
    LET updated_content == StrReplace(content, Placeholder, Replacement(d))
    IN  {[ret |-> TRUE, content |-> updated_content, opened |-> TRUE, errs |-> 0],
         [ret |-> FALSE, content |-> content, opened |-> FALSE, errs |-> 1]}
        \cup {[ret |-> FALSE, content |-> p, opened |-> TRUE, errs |-> 1] :
                 p \in Prefixes(updated_content) \ {updated_content}}

----------------------------------------------------------------------------
(* extract_config_values, get_tailscale_ip, fetch_tailscale_devices *)

\* re.search(r'<literal>\s*["\']([^"\']+)["\']', content): the value of the
\* first lexeme of that literal whose quoted value is not empty, else None.
RECURSIVE ReSearch(_, _)
ReSearch(content, literal) ==
    IF content = <<>> THEN None
    ELSE IF Head(content)[1] = literal /\ Truthy(Head(content)[2]) THEN Head(content)[2]
    ELSE ReSearch(Tail(content), literal)

\* The outcomes of one call: the pair returned and the log_error lines.
\* Reading the file may raise.
extract_config_values(content) ==
    LET api_key_match == ReSearch(content, "api_key: ")
        tailnet_match == ReSearch(content, "tailnet: ")
    IN  {[api_key |-> None, tailnet |-> None, errs |-> 1],
         IF api_key_match = None \/ tailnet_match = None
         THEN [api_key |-> None, tailnet |-> None, errs |-> 1]
         ELSE [api_key |-> api_key_match, tailnet |-> tailnet_match, errs |-> 0]}

\* primary: the 100.x.y.z address found in the output of `ip addr show`,
\* secondary: the one found in the output of `ifconfig`; None when the
\* command is missing, fails, times out or shows no such address.
get_tailscale_ip(primary, secondary) ==
    IF primary # None THEN primary ELSE secondary

\* What the registry may answer to the one request.
Responses(n) ==
    {[kind |-> k, body |-> NoData] :
        k \in {"HTTPError 401", "URLError", "status 204", "JSONDecodeError", "Exception"}}
    \cup {[kind |-> "status 200", body |-> b] : b \in Bodies(n)}

\* The value returned and the log_error lines printed.
fetch_tailscale_devices(resp) ==
    IF resp.kind = "status 200"
    THEN [data |-> resp.body, errs |-> 0]
    ELSE [data |-> NoData, errs |-> 1]

----------------------------------------------------------------------------
(* main() *)

Steps == <<"LoadConfig", "ProbeIdentity", "FetchRegistry", "Match", "Patch">>

Key == <<"tskey-api-k1">>
Net == <<"example", "com">>

\* The config files of the runs: the template, an already patched file, a
\* file without the placeholder, a file with the placeholder twice, and
\* files without usable credentials.
Credentials == <<ApiKey(Key), NL, Tailnet(Net), NL>>
ConfigFiles ==
    {Credentials \o Placeholder \o <<NL>>,
     Credentials \o <<Assign(<<"ci-1">>), NL>>,
     Credentials,
     Credentials \o Placeholder \o <<NL>> \o Placeholder,
     <<Tailnet(Net), NL>> \o Placeholder,
     <<ApiKey(<<"">>), NL, Tailnet(Net), NL>> \o Placeholder,
     <<ApiKey(Key), NL>> \o Placeholder}

Init ==
    /\ pc = "LoadConfig"
    /\ trace = <<>>
    /\ exists \in BOOLEAN
    /\ file \in (IF exists THEN ConfigFiles ELSE {<<>>})
    /\ file0 = file
    /\ before = file
    /\ api_key = None
    /\ tailnet = None
    /\ tailscale_ip = None
    /\ hostname = None
    /\ response = "none"
    /\ devices_data = NoData
    /\ device_name = None
    /\ updated = FALSE
    /\ errors = 0
    /\ fetches = 0
    /\ writes = 0
    /\ exit_code = Running

\* sys.exit(1)
Exit1 == pc' = "Failed" /\ exit_code' = 1

LoadConfig ==
    /\ pc = "LoadConfig"
    /\ trace' = Append(trace, "LoadConfig")
    /\ IF ~exists
       THEN /\ errors' = errors + 1
            /\ Exit1
            /\ UNCHANGED <<api_key, tailnet>>
       ELSE \E r \in extract_config_values(file) :
                /\ api_key' = r.api_key
                /\ tailnet' = r.tailnet
                /\ errors' = errors + r.errs
                /\ IF ~Truthy(r.api_key) \/ ~Truthy(r.tailnet)
                   THEN Exit1
                   ELSE pc' = "ProbeIdentity" /\ UNCHANGED exit_code
    /\ UNCHANGED <<exists, file, file0, before, tailscale_ip, hostname, response,
                   devices_data, device_name, updated, fetches, writes>>

ProbeIdentity ==
    /\ pc = "ProbeIdentity"
    /\ trace' = Append(trace, "ProbeIdentity")
    /\ \E primary \in IPs \cup {None}, secondary \in IPs \cup {None} :
          tailscale_ip' = get_tailscale_ip(primary, secondary)
    /\ hostname' \in LocalHostnames
    /\ IF ~Truthy(tailscale_ip') /\ ~Truthy(hostname')
       THEN errors' = errors + 1 /\ Exit1
       ELSE pc' = "FetchRegistry" /\ UNCHANGED <<errors, exit_code>>
    /\ UNCHANGED <<exists, file, file0, before, api_key, tailnet, response,
                   devices_data, device_name, updated, fetches, writes>>

FetchRegistry_retry ==
    /\ pc = "FetchRegistry"
    /\ fetches < 3
    /\ trace' = Append(trace, "FetchRegistry")
    /\ fetches' = fetches + 1
    /\ \E resp \in Responses(MaxRunDevices) :
          LET r == fetch_tailscale_devices(resp)
          IN  /\ response' = resp.kind
              /\ devices_data' = r.data
              /\ errors' = errors + r.errs
              /\ IF ~DataTruthy(r.data)
                 THEN IF fetches' < 3 THEN UNCHANGED <<pc, exit_code>> ELSE Exit1
                 ELSE pc' = "Match" /\ UNCHANGED exit_code
    /\ UNCHANGED <<exists, file, file0, before, api_key, tailnet, tailscale_ip,
                   hostname, device_name, updated, writes>>

FetchRegistry ==
    /\ pc = "FetchRegistry"
    /\ trace' = Append(trace, "FetchRegistry")
    /\ fetches' = fetches + 1
    /\ \E resp \in Responses(MaxRunDevices) :
          LET r == fetch_tailscale_devices(resp)
          IN  /\ response' = resp.kind
              /\ devices_data' = r.data
              /\ errors' = errors + r.errs
              /\ IF ~DataTruthy(r.data)
                 THEN Exit1
                 ELSE pc' = "Match" /\ UNCHANGED exit_code
    /\ UNCHANGED <<exists, file, file0, before, api_key, tailnet, tailscale_ip,
                   hostname, device_name, updated, writes>>

Match_no_exit ==
    /\ pc = "Match"
    /\ trace' = Append(trace, "Match")
    /\ device_name' = detect_current_device(devices_data, tailscale_ip, hostname)
    /\ IF ~Truthy(device_name')
       THEN errors' = errors + 2 + Len(devices_data.devices)
       ELSE UNCHANGED errors
    /\ pc' = "Patch"
    /\ UNCHANGED <<exists, file, file0, before, api_key, tailnet, tailscale_ip,
                   hostname, response, devices_data, updated, fetches, writes,
                   exit_code>>

\* On no match main() prints two lines and one line per device of
\* devices_data.get('devices', []).
Match ==
    /\ pc = "Match"
    /\ trace' = Append(trace, "Match")
    /\ device_name' = detect_current_device(devices_data, tailscale_ip, hostname)
    /\ IF ~Truthy(device_name')
       THEN errors' = errors + 2 + Len(devices_data.devices) /\ Exit1
       ELSE pc' = "Patch" /\ UNCHANGED <<errors, exit_code>>
    /\ UNCHANGED <<exists, file, file0, before, api_key, tailnet, tailscale_ip,
                   hostname, response, devices_data, updated, fetches, writes>>

\* The effect of one call of update_config_with_device with outcome r.
Update(r) ==
    /\ before' = file
    /\ file' = r.content
    /\ updated' = r.ret
    /\ errors' = errors + r.errs
    /\ writes' = writes + (IF r.opened THEN 1 ELSE 0)

Patch_ignore_result ==
    /\ pc = "Patch"
    /\ trace' = Append(trace, "Patch")
    /\ \E r \in update_config_with_device(file, device_name) : Update(r)
    /\ pc' = "Done" /\ exit_code' = 0
    /\ UNCHANGED <<exists, file0, api_key, tailnet, tailscale_ip, hostname,
                   response, devices_data, device_name, fetches>>

\* Returning from main() ends the process with exit code 0.
Patch ==
    /\ pc = "Patch"
    /\ trace' = Append(trace, "Patch")
    /\ \E r \in update_config_with_device(file, device_name) :
          /\ Update(r)
          /\ IF r.ret THEN pc' = "Done" /\ exit_code' = 0 ELSE Exit1
    /\ UNCHANGED <<exists, file0, api_key, tailnet, tailscale_ip, hostname,
                   response, devices_data, device_name, fetches>>

Next == LoadConfig \/ ProbeIdentity \/ FetchRegistry \/ Match \/ Patch

Spec == Init /\ [][Next]_vars

\* main() is sequential and every external call it makes is bounded by a
\* timeout, so a run that can take a step takes it.
FairSpec == Spec /\ WF_vars(Next)

----------------------------------------------------------------------------
(* The matcher on its own: detect_current_device over bounded registries *)

InitMatch ==
    /\ pc = "Detect"
    /\ trace = <<>>
    /\ exists = TRUE
    /\ file = <<>>
    /\ file0 = <<>>
    /\ before = <<>>
    /\ api_key = None
    /\ tailnet = None
    /\ tailscale_ip \in IPs \cup {None}
    /\ hostname \in LocalHostnames
    /\ response = "none"
    /\ devices_data \in Bodies(MaxDevices)
    /\ device_name = None
    /\ updated = FALSE
    /\ errors = 0
    /\ fetches = 0
    /\ writes = 0
    /\ exit_code = Running

Detect ==
    /\ pc = "Detect"
    /\ device_name' = detect_current_device(devices_data, tailscale_ip, hostname)
    /\ pc' = "Detected"
    /\ UNCHANGED <<trace, exists, file, file0, before, api_key, tailnet,
                   tailscale_ip, hostname, response, devices_data, updated,
                   errors, fetches, writes, exit_code>>

NextMatch == Detect

SpecMatch == InitMatch /\ [][NextMatch]_vars

(* The records of the registry that satisfy the IP rule and the hostname    *)
(* rules, stated on the data and not by the scan of the code.               *)
Devs == devices_data.devices
IPRule(i) == Truthy(tailscale_ip) /\ tailscale_ip \in Devs[i].addresses
HostnameRule(i) ==
    /\ Truthy(hostname)
    /\ \/ Devs[i].hostname = hostname
       \/ Len(hostname) = 1 /\ Devs[i].hostname[1] = hostname[1]
       \/ Devs[i].name = hostname
IPMatches == {i \in DOMAIN Devs : IPRule(i)}
HostnameMatches == {i \in DOMAIN Devs : HostnameRule(i)}
Least(S) == CHOOSE i \in S : \A j \in S : i <= j

\* C1: IP precedence.  When the local overlay IP is present and is among the
\* addresses of exactly one record, detect_current_device returns that
\* record's name, whatever the local hostname is.
C1_IPPrecedence ==
    (pc = "Detected" /\ devices_data.kind = "ok" /\ Cardinality(IPMatches) = 1)
        => device_name = Devs[CHOOSE i \in IPMatches : TRUE].name

\* The IP matches the second record only, the hostname an earlier record of
\* another name, and the second record's name is returned.
C1_Witness ==
    /\ pc = "Detected" /\ devices_data.kind = "ok"
    /\ IPMatches = {2} /\ 1 \in HostnameMatches
    /\ Devs[1].name # Devs[2].name
    /\ device_name = Devs[2].name

\* C2: hostname fallback.  When no record's addresses contain the local
\* overlay IP (or it is absent), the local hostname is present and some
\* record satisfies a hostname rule, detect_current_device returns the name
\* of the first such record in registry order.
C2_HostnameFallback ==
    (pc = "Detected" /\ devices_data.kind = "ok" /\ IPMatches = {}
        /\ HostnameMatches # {})
        => device_name = Devs[Least(HostnameMatches)].name

\* Two records of different names qualify, the first one by the rule of the
\* hostname up to its first '.' alone, the overlay IP is present and matches
\* nothing, and the first record's name is returned.
C2_Witness ==
    /\ pc = "Detected" /\ devices_data.kind = "ok"
    /\ Truthy(tailscale_ip) /\ IPMatches = {}
    /\ HostnameMatches = {1, 2}
    /\ Devs[1].name # Devs[2].name
    /\ Devs[1].hostname # hostname /\ Devs[1].name # hostname
    /\ device_name = Devs[1].name

\* C3: no false match.  detect_current_device returns None when overlay IP
\* and hostname are both absent, and when no record satisfies the IP rule or
\* a hostname rule; every name returned is the name of a record of the
\* registry that satisfies the IP rule or a hostname rule.
C3_NoFalseMatch ==
    pc = "Detected" =>
        /\ (~Truthy(tailscale_ip) /\ ~Truthy(hostname)) => device_name = None
        /\ (IPMatches = {} /\ HostnameMatches = {}) => device_name = None
        /\ device_name # None =>
              \E i \in IPMatches \cup HostnameMatches : device_name = Devs[i].name

\* Both signals are present, the registry holds two records, none of them
\* satisfies a rule, and nothing is returned.
C3_Witness ==
    /\ pc = "Detected" /\ devices_data.kind = "ok" /\ Len(Devs) = 2
    /\ Truthy(tailscale_ip) /\ Truthy(hostname)
    /\ IPMatches = {} /\ HostnameMatches = {}
    /\ device_name = None

----------------------------------------------------------------------------
(* The patcher on its own: update_config_with_device over bounded texts,    *)
(* run twice in a row on the same file                                      *)

PatchLexemes == {Hash, Assign(YourDeviceName), Assign(<<"ci-1">>), NL}
PatchNames == {<<"ci-1">>, YourDeviceName}
Texts(n) == SeqsUpTo(PatchLexemes, n)

InitPatch ==
    /\ pc = "FirstRun"
    /\ trace = <<>>
    /\ exists = TRUE
    /\ file \in Texts(MaxLen)
    /\ file0 = file
    /\ before = file
    /\ api_key = None
    /\ tailnet = None
    /\ tailscale_ip = None
    /\ hostname = None
    /\ response = "none"
    /\ devices_data = NoData
    /\ device_name = None
    /\ updated = FALSE
    /\ errors = 0
    /\ fetches = 0
    /\ writes = 0
    /\ exit_code = Running

FirstPatch ==
    /\ pc = "FirstRun"
    /\ \E d \in PatchNames :
          /\ device_name' = d
          /\ \E r \in update_config_with_device(file, d) : Update(r)
    /\ pc' = "SecondRun"
    /\ UNCHANGED <<trace, exists, file0, api_key, tailnet, tailscale_ip,
                   hostname, response, devices_data, fetches, exit_code>>

SecondPatch ==
    /\ pc = "SecondRun"
    /\ \E d \in PatchNames :
          /\ device_name' = d
          /\ \E r \in update_config_with_device(file, d) : Update(r)
    /\ pc' = "Patched"
    /\ UNCHANGED <<trace, exists, file0, api_key, tailnet, tailscale_ip,
                   hostname, response, devices_data, fetches, exit_code>>

NextPatch == FirstPatch \/ SecondPatch

SpecPatch == InitPatch /\ [][NextPatch]_vars

(* Occurrences, stated on positions and not by the scan of str.replace.     *)
(* The placeholder starts with "# " and holds it nowhere else, so two of    *)
(* its occurrences never overlap.                                           *)
Occ(s, old) == {i \in 1..(Len(s) - Len(old) + 1) : SubSeq(s, i, i + Len(old) - 1) = old}
PlaceholderCount(s) == Cardinality(Occ(s, Placeholder))
AssignmentCount(s, d) == Cardinality(Occ(s, <<Assign(d)>>))

\* The lexemes of s at the positions of P, in the order of s.
Pick(s, P) ==
    [j \in 1..Cardinality(P) |->
        s[CHOOSE p \in P : Cardinality({q \in P : q <= p}) = j]]

\* s with every placeholder occurrence turned into the assignment of d: the
\* "# " of an occurrence goes, the lexeme after it becomes device_name: "<d>".
AllOccurrencesPatched(s, d) ==
    LET occ == Occ(s, Placeholder)
        t == [p \in 1..Len(s) |-> IF p - 1 \in occ THEN Assign(d) ELSE s[p]]
    IN  Pick(t, (1..Len(s)) \ occ)

\* s with the one occurrence at position i turned into the assignment of d.
PatchedAt(s, i, d) == SubSeq(s, 1, i - 1) \o <<Assign(d)>> \o SubSeq(s, i + 2, Len(s))

\* Lines: line k of s holds the lexemes that follow k - 1 line ends.
NumLines(s) == 1 + Cardinality({p \in 1..Len(s) : s[p] = NL})
Line(s, k) ==
    Pick(s, {p \in 1..Len(s) :
                s[p] # NL /\ Cardinality({q \in 1..(p - 1) : s[q] = NL}) = k - 1})

Ran == pc \in {"SecondRun", "Patched"}

\* C4 as claimed: for every config text the text written differs from the
\* text read in at most one place, the one placeholder.
C4_AtMostOnePlaceAltered ==
    (Ran /\ updated) =>
        \/ file = before
        \/ \E i \in Occ(before, Placeholder) : file = PatchedAt(before, i, device_name)

\* C4 amended: the text written is the text read with every occurrence of
\* the placeholder replaced by the assignment and nothing else altered: the
\* lines are as many, each line without a placeholder is identical and at
\* the same place, and a text with at most one occurrence differs in at
\* most that one place.
C4_OnlyPlaceholdersAltered ==
    (Ran /\ updated) =>
        /\ file = AllOccurrencesPatched(before, device_name)
        /\ NumLines(file) = NumLines(before)
        /\ \A k \in 1..NumLines(before) :
              Occ(Line(before, k), Placeholder) = {} => Line(file, k) = Line(before, k)
        /\ PlaceholderCount(before) <= 1 =>
              \/ file = before
              \/ \E i \in Occ(before, Placeholder) :
                    file = PatchedAt(before, i, device_name)

\* A text of three lines whose middle line is the placeholder was patched:
\* the middle line is the assignment, the other lines are as they were.
C4_Witness ==
    /\ pc = "SecondRun" /\ updated /\ device_name = <<"ci-1">>
    /\ NumLines(before) = 3
    /\ Line(before, 1) = <<Assign(<<"ci-1">>)>>
    /\ Line(before, 2) = Placeholder
    /\ Line(file, 1) = Line(before, 1)
    /\ Line(file, 2) = <<Assign(<<"ci-1">>)>>
    /\ Line(file, 3) = Line(before, 3)

\* C5: the patch is idempotent on the placeholder.  A text without the
\* placeholder is written back unchanged, whatever the device name; the
\* output of a patch is such a text (for every device name but the
\* placeholder's own "your-device-name"), so a second run leaves it as the
\* first run wrote it.
C5_IdempotentOnPatched ==
    /\ (Ran /\ updated /\ PlaceholderCount(before) = 0) => file = before
    /\ (Ran /\ updated /\ device_name # YourDeviceName) => PlaceholderCount(file) = 0

\* The first run replaced a placeholder by the assignment of ci-1, the
\* second run resolved another name and left the text as the first wrote it.
C5_Witness ==
    /\ pc = "Patched" /\ updated /\ writes = 2
    /\ PlaceholderCount(file0) = 1 /\ AssignmentCount(file0, <<"ci-1">>) = 0
    /\ before = AllOccurrencesPatched(file0, <<"ci-1">>)
    /\ PlaceholderCount(before) = 0
    /\ device_name = YourDeviceName
    /\ file = before

\* C9 as claimed: for every config text with at most one placeholder, after
\* a successful update the file holds no placeholder and exactly one
\* assignment of the resolved name.
C9_ZeroPlaceholdersOneAssignment ==
    (Ran /\ updated /\ PlaceholderCount(before) <= 1) =>
        /\ PlaceholderCount(file) = 0
        /\ AssignmentCount(file, device_name) = 1

\* C9 amended: for every config text with exactly one placeholder and no
\* assignment of the resolved name yet, after a successful update the file
\* holds no placeholder and exactly one assignment of the resolved name.
C9_OnePlaceholderBecomesOneAssignment ==
    (Ran /\ updated /\ PlaceholderCount(before) = 1
         /\ AssignmentCount(before, device_name) = 0) =>
        /\ PlaceholderCount(file) = 0
        /\ AssignmentCount(file, device_name) = 1

\* A text with one placeholder among other lines was patched successfully.
C9_Witness ==
    /\ pc = "SecondRun" /\ updated
    /\ PlaceholderCount(before) = 1 /\ AssignmentCount(before, device_name) = 0
    /\ Len(before) = MaxLen
    /\ PlaceholderCount(file) = 0 /\ AssignmentCount(file, device_name) = 1

----------------------------------------------------------------------------
(* Properties of main() *)

Ended == pc \in {"Done", "Failed"}
Executed(step) == \E i \in DOMAIN trace : trace[i] = step
IsPrefix(s, t) == Len(s) <= Len(t) /\ s = SubSeq(t, 1, Len(s))

\* C6: exit code.  A run ends with exit code 0 exactly when the matcher
\* resolved a device and update_config_with_device rewrote the config file
\* successfully, and with exit code 1 in every other case; until it ends
\* the process has no exit code.
C6_ExitCode ==
    /\ Ended <=> exit_code \in {0, 1}
    /\ ~Ended => exit_code = Running
    /\ exit_code = 0 <=>
          (Ended /\ Truthy(device_name) /\ updated /\ writes = 1)
    /\ exit_code = 1 <=>
          (Ended /\ \/ ~exists
                    \/ ~Truthy(api_key) \/ ~Truthy(tailnet)
                    \/ ~Truthy(tailscale_ip) /\ ~Truthy(hostname)
                    \/ ~DataTruthy(devices_data)
                    \/ ~Truthy(device_name)
                    \/ ~updated)

\* A run on an already patched config file resolved a device, wrote the
\* file back as it was and ended with exit code 0.
C6_Witness ==
    /\ pc = "Done" /\ exit_code = 0
    /\ Truthy(device_name) /\ updated
    /\ PlaceholderCount(file0) = 0 /\ file = file0

\* C7: no config modification on failure.  Until the Patch step runs the
\* config file is as it was at process start and was never opened for
\* writing, so a run that fails at LoadConfig, ProbeIdentity, FetchRegistry
\* or Match leaves it untouched; the file is written at most once per run,
\* in the Patch step, after a device name was resolved.
C7_NoModificationOnFailure ==
    /\ ~Executed("Patch") => (file = file0 /\ writes = 0)
    /\ (pc = "Failed" /\ trace[Len(trace)] # "Patch") => file = file0
    /\ writes <= 1
    /\ writes = 1 => (Truthy(device_name) /\ trace[Len(trace)] = "Patch")

\* The registry answered 401 to a run on the template config: the run
\* failed at FetchRegistry and the placeholder is still in the file.
C7_Witness ==
    /\ pc = "Failed" /\ exit_code = 1
    /\ response = "HTTPError 401"
    /\ trace = SubSeq(Steps, 1, 3)
    /\ PlaceholderCount(file0) = 1 /\ file = file0 /\ writes = 0

\* C8: every failure is reported.  No run ends with exit code 1 without at
\* least one log_error line printed before.
C8_EveryFailureReported ==
    exit_code = 1 => errors >= 1

\* C10: orchestrator order.  The steps run in the order LoadConfig,
\* ProbeIdentity, FetchRegistry, Match, Patch, each at most once; the
\* registry is fetched at most once, and only with credentials and an
\* identity signal at hand; Done is reached through all five steps; once
\* Done or Failed nothing changes any more; every run ends Done or Failed.
C10_StepsInOrder ==
    /\ IsPrefix(trace, Steps)
    /\ ~Ended => pc = Steps[Len(trace) + 1]
    /\ pc = "Done" => trace = Steps
    /\ pc = "Failed" => trace # <<>>
    /\ fetches = (IF Executed("FetchRegistry") THEN 1 ELSE 0)
    /\ fetches = 1 =>
          /\ Truthy(api_key) /\ Truthy(tailnet)
          /\ Truthy(tailscale_ip) \/ Truthy(hostname)

C10_OrchestratorOrder ==
    /\ []C10_StepsInOrder
    /\ [][~Ended]_vars
    /\ <>Ended

\* A run went through the five steps, with one fetch, and is Done.
C10_Witness ==
    /\ pc = "Done" /\ trace = Steps /\ fetches = 1 /\ writes = 1

====
